---- MODULE Spec2Model ----
(***************************************************************************)
(* Session orchestration of the MDAC automation service:                   *)
(*   src/mdac_automation.py  ManualGate, open_context, _finalize_artifacts,*)
(*                           click_if_exists, set_date_by_id, register_one,*)
(*                           download_one, _attach_listeners, field setters*)
(*   src/main.py             register_rows, download_rows, resume          *)
(*                                                                         *)
(* Spec         register_one workflows of concurrent /register requests on *)
(*              one event loop, sharing the module-level GATE, with the    *)
(*              /resume endpoint called by an external actor at any time.  *)
(* SpecSession  one register_rows / download_rows handler: open_context,   *)
(*              the workflow, _finalize_artifacts, the result record.      *)
(* SpecDate     set_date_by_id applied to bounded date strings.            *)
(* SpecClick    click_if_exists applied to bounded page contents.          *)
(* SpecDownload download_one: the steps before the strategies, the direct  *)
(*              download strategy, the popup strategy.                     *)
(* SpecSetters  one call of set_date_by_id, _fill_if_value or              *)
(*              _select_if_value.                                          *)
(* SpecTelemetry the handlers registered by _attach_listeners, run on page *)
(*              events while the workflow goes on.                         *)
(* SpecCascade  the assignment script set_date_by_id evaluates in the page.*)
(* SpecRegister one register_one call step by step, with its gate point    *)
(*              and the /resume endpoint.                                  *)
(*                                                                         *)
(* Each specification moves its own variables and leaves the others at     *)
(* their initial values.                                                   *)
(***************************************************************************)
EXTENDS Integers, Sequences, FiniteSets, TLC

\* ------------------------------------------------------------------ bounds
\* register_one workflows in flight on the event loop
MaxFlows == 2
\* rows in the body of one request
MaxRows == 2
\* GATE_WAIT_SECONDS (src/mdac_automation.py:22) is read from the environment
\* (default 120); the model counts the ceiling in clock ticks.
GATE_WAIT_SECONDS == 2
\* whitespace characters around a date string
MaxPad == 1
\* elements of one role matching a pattern
MaxMatches == 2
\* page events delivered to the listeners of one page
MaxEvents == 2
\* steps of the workflow running while the events arrive
MaxWfSteps == 2
\* characters of a gender string built from the alphabet
MaxGenderLen == 2

Flows == 1..MaxFlows
\* uuid4().hex[:8] tokens (src/main.py:84): the token generated for workflow r
\* is named r; the last token is one the service never generates.
NumTokens == MaxFlows + 1
Tokens == 1..NumTokens
NoToken == 0
\* the asyncio.Event constructed by workflow r is named r
NoEvent == 0

VARIABLES
    \* ---- ManualGate and the workflows waiting on it
    events,         \* ManualGate._events : token -> Event (NoEvent = key absent)
    evSet,          \* the asyncio.Event objects whose flag is set
    resp,           \* last answer of POST /resume/{token}
    hist,           \* per token: "none", "created" (no resume succeeded since
                    \* the last create), "resumed"
    pc, pause, token, ev, waited, gateOutcome,
    \* ---- one register_rows handler
    RECORD_TRACE,   \* src/mdac_automation.py:23
    handler,        \* the endpoint being served: "register" or "download"
    hpc, nrows, row, record, ctx, artifacts, raised, finLog, results,
    browsers,       \* Chromium instances launched by open_context and still running
    \* ---- set_date_by_id
    datePc, dateParts, dateIn, dateNorm, pageOps, dateLog,
    \* ---- click_if_exists
    clickPc, pattern, btnCount, linkCount, clicked, clickLog, clickRet,
    \* ---- download_one
    dlPc, dlPre, dlPage, dlDirect, dlPopup, dlTried, dlRet,
    \* ---- _fill_if_value, _select_if_value
    fieldPc, fieldKind, fieldValue, fieldOps, fieldLog,
    \* ---- _attach_listeners
    LOG_NETWORK,    \* src/mdac_automation.py:21
    telAttached, telLog, wfStep, wfBroken,
    \* ---- the assignment cascade of set_date_by_id, run in the page
    cascPc, cascPage, cascIdx, cascRan, cascRes,
    \* ---- the steps of one register_one call around its gate point
    rStep, rMissed, rSubmit, rSettle,
    \* ---- the sex selection of register_one
    sexPc, gender, mapped_sex, sexOps

gateVars  == <<events, evSet, resp, hist,
               pc, pause, token, ev, waited, gateOutcome>>
sessVars  == <<RECORD_TRACE, handler, hpc, nrows, row, record, ctx, artifacts, raised,
               finLog, results, browsers>>
dateVars  == <<datePc, dateParts, dateIn, dateNorm, pageOps, dateLog>>
clickVars == <<clickPc, pattern, btnCount, linkCount, clicked, clickLog, clickRet>>
dlVars    == <<dlPc, dlPre, dlPage, dlDirect, dlPopup, dlTried, dlRet>>
coreVars  == <<gateVars, sessVars, dateVars, clickVars>>
\* the variables of the later sections, left alone by the sections above them
fieldVars == <<fieldPc, fieldKind, fieldValue, fieldOps, fieldLog>>
telVars   == <<LOG_NETWORK, telAttached, telLog, wfStep, wfBroken>>
cascVars  == <<cascPc, cascPage, cascIdx, cascRan, cascRes>>
regVars   == <<rStep, rMissed, rSubmit, rSettle>>
genderVars == <<sexPc, gender, mapped_sex, sexOps>>
moreVars  == <<dlVars, fieldVars, telVars, cascVars, regVars, genderVars>>
\* what the actions of one section leave alone
dlRest    == <<coreVars, fieldVars, telVars, cascVars, regVars, genderVars>>
fieldRest == <<coreVars, dlVars, telVars, cascVars, regVars, genderVars>>
telRest   == <<coreVars, dlVars, fieldVars, cascVars, regVars, genderVars>>
cascRest  == <<coreVars, dlVars, fieldVars, telVars, regVars, genderVars>>
regRest   == <<sessVars, dateVars, clickVars, dlVars, fieldVars, telVars, cascVars,
               genderVars>>
genderRest == <<coreVars, dlVars, fieldVars, telVars, cascVars, regVars>>
vars == <<coreVars, moreVars>>

\* ===================================================================== Gate
\* ManualGate.create: self._events[token] = ev (an existing entry is replaced)
ManualGate_create(t, h) == [events EXCEPT ![t] = h]

\* faulty variant: resume answers success without looking the token up
ManualGate_resume_ret_unchecked(t) == TRUE

\* ManualGate.resume, the value returned: False when the key is absent
ManualGate_resume_ret(t) == events[t] # NoEvent

\* faulty variant: resume signals the Event and keeps the entry
ManualGate_resume_events_kept(t) == events

\* ManualGate.resume, the mapping afterwards: del self._events[token]
ManualGate_resume_events(t) ==
    IF events[t] = NoEvent THEN events ELSE [events EXCEPT ![t] = NoEvent]

\* faulty variant: resume signals every Event of the mapping
ManualGate_resume_set_all(t) ==
    IF events[t] = NoEvent THEN evSet
    ELSE evSet \cup ({events[u] : u \in Tokens} \ {NoEvent})

\* ManualGate.resume, the Event flags afterwards: ev.set()
ManualGate_resume_set(t) ==
    IF events[t] = NoEvent THEN evSet ELSE evSet \cup {events[t]}

\* POST /resume/{token}: 404 when GATE.resume returns False
resume(t) ==
    /\ resp' = [tok |-> t, ok |-> ManualGate_resume_ret(t)]
    /\ events' = ManualGate_resume_events(t)
    /\ evSet' = ManualGate_resume_set(t)
    /\ hist' = IF ManualGate_resume_ret(t) THEN [hist EXCEPT ![t] = "resumed"] ELSE hist
    /\ UNCHANGED <<pc, pause, token, ev, waited, gateOutcome>>
    /\ UNCHANGED <<sessVars, dateVars, clickVars, moreVars>>

\* register_rows reaches a row with a session open: the token is generated
\* `if pause` and register_one is entered (src/main.py:84-85)
register_start(r) ==
    /\ pc[r] = "idle"
    /\ \E pa \in BOOLEAN :
          /\ pause' = [pause EXCEPT ![r] = pa]
          /\ token' = [token EXCEPT ![r] = IF pa THEN r ELSE NoToken]
    /\ pc' = [pc EXCEPT ![r] = "fill"]
    /\ UNCHANGED <<events, evSet, resp, hist, ev, waited, gateOutcome>>
    /\ UNCHANGED <<sessVars, dateVars, clickVars, moreVars>>

\* the workflows of the specification in which tokens may coincide
SharedFlows == {1, 2}

\* src/main.py:84 without the assumption that tokens are fresh:
\* `uuid.uuid4().hex[:8]` is a random 32-bit value, so the token of a
\* workflow can be any token, one held by a suspended workflow included
register_start_shared(r) ==
    /\ pc[r] = "idle"
    /\ \E pa \in BOOLEAN, tok \in Tokens :
          /\ pause' = [pause EXCEPT ![r] = pa]
          /\ token' = [token EXCEPT ![r] = IF pa THEN tok ELSE NoToken]
    /\ pc' = [pc EXCEPT ![r] = "fill"]
    /\ UNCHANGED <<events, evSet, resp, hist, ev, waited, gateOutcome>>
    /\ UNCHANGED <<sessVars, dateVars, clickVars, moreVars>>

\* register_one from its start to the gate point: navigation, accordion, every
\* field setter and the city list, each catching its own failure; then
\* `if pause and gate_token:` ev = GATE.create(gate_token) and the workflow
\* awaits asyncio.wait_for(ev.wait(), timeout=GATE_WAIT_SECONDS)
gate_point(r) ==
    /\ pc[r] = "fill"
    /\ IF pause[r] /\ token[r] # NoToken
       THEN /\ events' = ManualGate_create(token[r], r)
            /\ ev' = [ev EXCEPT ![r] = r]
            /\ hist' = [hist EXCEPT ![token[r]] = "created"]
            /\ waited' = [waited EXCEPT ![r] = 0]
            /\ pc' = [pc EXCEPT ![r] = "gate"]
       ELSE /\ pc' = [pc EXCEPT ![r] = "submit"]
            /\ UNCHANGED <<events, ev, hist, waited>>
    /\ UNCHANGED <<evSet, resp, pause, token, gateOutcome>>
    /\ UNCHANGED <<sessVars, dateVars, clickVars, moreVars>>

\* one second of the wait_for timeout elapses
tick(r) ==
    /\ pc[r] = "gate"
    /\ waited[r] < GATE_WAIT_SECONDS
    /\ waited' = [waited EXCEPT ![r] = waited[r] + 1]
    /\ UNCHANGED <<events, evSet, resp, hist, pc, pause, token, ev, gateOutcome>>
    /\ UNCHANGED <<sessVars, dateVars, clickVars, moreVars>>

\* faulty variant: the workflow sleeps the whole ceiling before it looks at the flag
gate_wait_done_late(r) == ev[r] \in evSet /\ waited[r] >= GATE_WAIT_SECONDS

\* when ev.wait() returns: the Event's flag is set
gate_wait_done(r) == ev[r] \in evSet

\* faulty variant: the timeout fires without the ceiling having elapsed
gate_wait_timeout_early(r) == ev[r] \notin evSet

\* when wait_for raises TimeoutError: the ceiling elapsed with the flag unset
gate_wait_timeout(r) == ev[r] \notin evSet /\ waited[r] >= GATE_WAIT_SECONDS

\* wait_for returns: log_ok("Gate resumed")
gate_resumed(r) ==
    /\ pc[r] = "gate"
    /\ gate_wait_done(r)
    /\ gateOutcome' = [gateOutcome EXCEPT ![r] = "resumed"]
    /\ pc' = [pc EXCEPT ![r] = "submit"]
    /\ UNCHANGED <<events, evSet, resp, hist, pause, token, ev, waited>>
    /\ UNCHANGED <<sessVars, dateVars, clickVars, moreVars>>

\* faulty variant: the timeout branch drops the token from the mapping
gate_timeout_cleanup(r) ==
    /\ pc[r] = "gate"
    /\ gate_wait_timeout(r)
    /\ events' = [events EXCEPT ![token[r]] = NoEvent]
    /\ gateOutcome' = [gateOutcome EXCEPT ![r] = "timeout"]
    /\ pc' = [pc EXCEPT ![r] = "submit"]
    /\ UNCHANGED <<evSet, resp, hist, pause, token, ev, waited>>
    /\ UNCHANGED <<sessVars, dateVars, clickVars, moreVars>>

\* except asyncio.TimeoutError: log_warn("Gate timed out; continuing")
gate_timeout(r) ==
    /\ pc[r] = "gate"
    /\ gate_wait_timeout(r)
    /\ gateOutcome' = [gateOutcome EXCEPT ![r] = "timeout"]
    /\ pc' = [pc EXCEPT ![r] = "submit"]
    /\ UNCHANGED <<events, evSet, resp, hist, pause, token, ev, waited>>
    /\ UNCHANGED <<sessVars, dateVars, clickVars, moreVars>>

\* the submit step and the rest of register_one: none of it touches the gate;
\* the wait_for timer is gone
submit(r) ==
    /\ pc[r] = "submit"
    /\ pc' = [pc EXCEPT ![r] = "done"]
    /\ waited' = [waited EXCEPT ![r] = 0]
    /\ UNCHANGED <<events, evSet, resp, hist, pause, token, ev, gateOutcome>>
    /\ UNCHANGED <<sessVars, dateVars, clickVars, moreVars>>

\* GATE = ManualGate() at import: an empty mapping; no workflow started
GateInit ==
    /\ events = [t \in Tokens |-> NoEvent]
    /\ evSet = {}
    /\ resp = [tok |-> NoToken, ok |-> FALSE]
    /\ hist = [t \in Tokens |-> "none"]
    /\ pc = [r \in Flows |-> "idle"]
    /\ pause = [r \in Flows |-> FALSE]
    /\ token = [r \in Flows |-> NoToken]
    /\ ev = [r \in Flows |-> NoEvent]
    /\ waited = [r \in Flows |-> 0]
    /\ gateOutcome = [r \in Flows |-> "none"]

\* ================================================================== Session
\* ctx.downloads: the download directory ("none" when open_context was given
\* none); ctx.log: the page lifecycle calls made so far on the session's page
NoCtx == [state |-> "none", video |-> FALSE, tracing |-> "off",
          downloads |-> "none", log |-> <<>>]
NoArtifacts == [video_path |-> FALSE, trace_path |-> FALSE, screenshots_dir |-> FALSE]

\* POST /register arrives: the rows of the body and the `record` parameter
register_rows(n, rec) ==
    /\ hpc = "idle"
    /\ nrows' = n
    /\ record' = rec
    /\ row' = 1
    /\ handler' = "register"
    /\ hpc' = "open"
    /\ UNCHANGED <<RECORD_TRACE, browsers, ctx, artifacts, raised, finLog, results>>
    /\ UNCHANGED <<gateVars, dateVars, clickVars, moreVars>>

\* POST /download arrives (src/main.py:126-162): the same loop, with
\* open_context given DOWNLOAD_DIR and download_one as the workflow
download_rows(n, rec) ==
    /\ hpc = "idle"
    /\ nrows' = n
    /\ record' = rec
    /\ row' = 1
    /\ handler' = "download"
    /\ hpc' = "open"
    /\ UNCHANGED <<RECORD_TRACE, browsers, ctx, artifacts, raised, finLog, results>>
    /\ UNCHANGED <<gateVars, dateVars, clickVars, moreVars>>

\* faulty variant: a video directory that cannot be prepared ends open_context
open_context_strict(launchOk, dirOk, traceOk, dlDirOk) ==
    /\ hpc = "open"
    /\ hpc' = "aborted"
    /\ UNCHANGED <<ctx, artifacts>>
    /\ UNCHANGED <<RECORD_TRACE, browsers, handler, nrows, row, record, raised, finLog, results>>
    /\ UNCHANGED <<gateVars, dateVars, clickVars, moreVars>>

\* faulty variant: the page is navigated before the listeners are attached
open_context_warmup(launchOk, dirOk, traceOk, dlDirOk) ==
    /\ hpc = "open"
    /\ ctx' = [state |-> "open", video |-> record /\ dirOk, tracing |-> "off",
               downloads |-> "none",
               log |-> <<"new_page", "goto", "attach_listeners">>]
    /\ artifacts' = [video_path |-> FALSE, trace_path |-> FALSE,
                     screenshots_dir |-> record /\ dirOk]
    /\ hpc' = "work"
    /\ browsers' = browsers + 1
    /\ UNCHANGED <<RECORD_TRACE, handler, nrows, row, record, raised, finLog, results>>
    /\ UNCHANGED <<gateVars, dateVars, clickVars, moreVars>>

\* open_context, awaited outside the try of the loop body (src/main.py:79,
\* 138). launch, new_context or new_page raising leaves the handler with the
\* exception; a failing mkdir of the video directory, tracing.start or mkdir
\* of the download directory is logged and the session is returned.
\* `pw = await async_playwright().start()` and `browser = await
\* pw.chromium.launch(...)` (189-194) start a driver and a Chromium instance
\* per call; open_context returns the context, the page and the descriptor
\* only, so neither is reachable afterwards. When new_context or new_page
\* raised, the instance launched before them is left running as well.
\* record_video_dir is `VIDEOS_DIR / passport if record else None`; the
\* download directory is passed by download_rows only. After new_page the
\* listeners are attached (lines 222-224); no goto is issued.
open_context(launchOk, dirOk, traceOk, dlDirOk) ==
    /\ hpc = "open"
    /\ IF ~launchOk
       THEN /\ hpc' = "aborted"
            /\ browsers' \in {browsers, browsers + 1}
            /\ UNCHANGED <<ctx, artifacts>>
       ELSE /\ ctx' = [state |-> "open",
                       video |-> record /\ dirOk,
                       tracing |-> IF RECORD_TRACE /\ record
                                   THEN (IF traceOk THEN "started" ELSE "failed")
                                   ELSE "off",
                       downloads |-> IF handler = "download"
                                     THEN (IF dlDirOk THEN "ready" ELSE "failed")
                                     ELSE "none",
                       log |-> <<"new_page", "attach_listeners">>]
            /\ artifacts' = [video_path |-> FALSE, trace_path |-> FALSE,
                             screenshots_dir |-> record /\ dirOk]
            /\ hpc' = "work"
            /\ browsers' = browsers + 1
    /\ UNCHANGED <<RECORD_TRACE, handler, nrows, row, record, raised, finLog, results>>
    /\ UNCHANGED <<gateVars, dateVars, clickVars, moreVars>>

\* faulty variant: the workflow writes into the artifacts descriptor
register_one_marks_artifacts(ok) ==
    /\ hpc = "work"
    /\ handler = "register"
    /\ raised' = ~ok
    /\ ctx' = [ctx EXCEPT !.log = Append(@, "goto")]
    /\ artifacts' = [artifacts EXCEPT !.screenshots_dir = TRUE]
    /\ hpc' = "fin_trace"
    /\ UNCHANGED <<RECORD_TRACE, browsers, handler, nrows, row, record, finLog, results>>
    /\ UNCHANGED <<gateVars, dateVars, clickVars, moreVars>>

\* faulty variant: the except branch records the error without finalizing
register_one_unfinalized(ok) ==
    /\ hpc = "work"
    /\ handler = "register"
    /\ raised' = ~ok
    /\ ctx' = [ctx EXCEPT !.log = Append(@, "goto")]
    /\ hpc' = IF ok THEN "fin_trace" ELSE "append"
    /\ UNCHANGED <<RECORD_TRACE, browsers, handler, nrows, row, record, artifacts, finLog, results>>
    /\ UNCHANGED <<gateVars, dateVars, clickVars, moreVars>>

\* `info = await register_one(...)` inside the try: its first await is
\* navigate_safe (src/mdac_automation.py:532); it returns the summary, or
\* raises from the one await it does not guard, page.wait_for_timeout(1500)
\* (src/mdac_automation.py:669), and the except branch is taken
register_one(ok) ==
    /\ hpc = "work"
    /\ handler = "register"
    /\ raised' = ~ok
    /\ ctx' = [ctx EXCEPT !.log = Append(@, "goto")]
    /\ hpc' = "fin_trace"
    /\ UNCHANGED <<RECORD_TRACE, browsers, handler, nrows, row, record, artifacts, finLog, results>>
    /\ UNCHANGED <<gateVars, dateVars, clickVars, moreVars>>

\* `pdf_path = await download_one(...)` inside the try (src/main.py:144): its
\* first await is navigate_safe (src/mdac_automation.py:685); it returns a
\* path or None, or raises from page.wait_for_timeout(1200) (line 715)
download_row(ok) ==
    /\ hpc = "work"
    /\ handler = "download"
    /\ raised' = ~ok
    /\ ctx' = [ctx EXCEPT !.log = Append(@, "goto")]
    /\ hpc' = "fin_trace"
    /\ UNCHANGED <<RECORD_TRACE, browsers, handler, nrows, row, record, artifacts, finLog, results>>
    /\ UNCHANGED <<gateVars, dateVars, clickVars, moreVars>>

\* faulty variant: trace-stop is attempted only for a trace that started
fin_trace_if_started(ok) ==
    /\ hpc = "fin_trace"
    /\ IF ctx.tracing = "started"
       THEN /\ finLog' = Append(finLog, "trace")
            /\ artifacts' = [artifacts EXCEPT !.trace_path = ok]
       ELSE UNCHANGED <<finLog, artifacts>>
    /\ hpc' = "fin_close"
    /\ UNCHANGED <<RECORD_TRACE, browsers, handler, nrows, row, record, ctx, raised, results>>
    /\ UNCHANGED <<gateVars, dateVars, clickVars, moreVars>>

\* _finalize_artifacts, step 1: `if RECORD_TRACE and record_dir is not None`
\* await context.tracing.stop(path=...); trace_path is recorded on success
fin_trace(ok) ==
    /\ hpc = "fin_trace"
    /\ IF RECORD_TRACE /\ record
       THEN /\ finLog' = Append(finLog, "trace")
            /\ artifacts' = [artifacts EXCEPT !.trace_path = ok]
       ELSE UNCHANGED <<finLog, artifacts>>
    /\ hpc' = "fin_close"
    /\ UNCHANGED <<RECORD_TRACE, browsers, handler, nrows, row, record, ctx, raised, results>>
    /\ UNCHANGED <<gateVars, dateVars, clickVars, moreVars>>

\* faulty variant: a failing context.close() is not caught and ends finalize
fin_close_propagates(ok) ==
    /\ hpc = "fin_close"
    /\ finLog' = Append(finLog, "close")
    /\ ctx' = [ctx EXCEPT !.state = IF ok THEN "closed" ELSE "closefailed"]
    /\ hpc' = IF ok THEN "fin_video" ELSE "append"
    /\ raised' = (raised \/ ~ok)
    /\ UNCHANGED <<RECORD_TRACE, browsers, handler, nrows, row, record, artifacts, results>>
    /\ UNCHANGED <<gateVars, dateVars, clickVars, moreVars>>

\* _finalize_artifacts, step 2: await context.close(); a failure is logged
fin_close(ok) ==
    /\ hpc = "fin_close"
    /\ finLog' = Append(finLog, "close")
    /\ ctx' = [ctx EXCEPT !.state = IF ok THEN "closed" ELSE "closefailed"]
    /\ hpc' = "fin_video"
    /\ UNCHANGED <<RECORD_TRACE, browsers, handler, nrows, row, record, artifacts, raised, results>>
    /\ UNCHANGED <<gateVars, dateVars, clickVars, moreVars>>

\* _finalize_artifacts, step 3: `if getattr(page, "video", None)` the path of
\* the recording is awaited and recorded. The step does not read the outcome
\* of step 2. page.video exists when the context was created with
\* record_video_dir; Video.path() answers from the recording artifact announced
\* when the page was created, so it can succeed although close() raised.
fin_video(ok) ==
    /\ hpc = "fin_video"
    /\ finLog' = Append(finLog, "video")
    /\ IF ctx.video
       THEN artifacts' = [artifacts EXCEPT !.video_path = ok]
       ELSE UNCHANGED artifacts
    /\ hpc' = "append"
    /\ UNCHANGED <<RECORD_TRACE, browsers, handler, nrows, row, record, ctx, raised, results>>
    /\ UNCHANGED <<gateVars, dateVars, clickVars, moreVars>>

\* results.append(...) and the next iteration of `for idx, row in enumerate(rows, 1)`
append_result ==
    /\ hpc = "append"
    /\ results' = Append(results, IF raised THEN "error" ELSE "ok")
    /\ IF row < nrows
       THEN /\ row' = row + 1
            /\ hpc' = "open"
            /\ ctx' = NoCtx
            /\ artifacts' = NoArtifacts
            /\ raised' = FALSE
            /\ finLog' = <<>>
       ELSE /\ hpc' = "done"
            /\ UNCHANGED <<row, ctx, artifacts, raised, finLog>>
    /\ UNCHANGED <<RECORD_TRACE, browsers, handler, nrows, record>>
    /\ UNCHANGED <<gateVars, dateVars, clickVars, moreVars>>

\* no request received; RECORD_TRACE is fixed by the environment at import
SessInit ==
    /\ RECORD_TRACE \in BOOLEAN
    /\ handler = "none"
    /\ hpc = "idle"
    /\ nrows = 0
    /\ row = 0
    /\ record = FALSE
    /\ ctx = NoCtx
    /\ artifacts = NoArtifacts
    /\ raised = FALSE
    /\ finLog = <<>>
    /\ results = <<>>
    /\ browsers = 0

\* the handler at rest, for the specifications that do not move it
SessIdle == SessInit /\ RECORD_TRACE = TRUE

\* =========================================================== set_date_by_id
\* Strings are sequences of one-character strings.
DigitChars == {"0", "1", "2", "3", "4", "5", "6", "7", "8", "9"}
SpaceChars == {" "}

\* the fields and separators the date strings of the model are built from
Fields == { <<"0","7">>, <<"0","5">>, <<"2","0","2","4">>, <<"1","9","9","0">>,
            <<"7">>, <<"x","7">>, <<"2","0","2">> }
Seps == {"-", "/"}

Spaces(n) == [i \in 1..n |-> " "]

\* the argument date_str: None, a blank string, or fields joined by separators
DateInputs ==
    { [kind |-> "none", lpad |-> 0, a |-> <<>>, s1 |-> "-", b |-> <<>>,
       s2 |-> "-", c |-> <<>>, rpad |-> 0] }
    \cup { [kind |-> "blank", lpad |-> l, a |-> <<>>, s1 |-> "-", b |-> <<>>,
            s2 |-> "-", c |-> <<>>, rpad |-> 0] : l \in 0..MaxPad }
    \cup [kind : {"built"}, lpad : 0..MaxPad, a : Fields, s1 : Seps, b : Fields,
          s2 : Seps, c : Fields, rpad : 0..MaxPad]

DateArg(p) ==
    IF p.kind = "none" THEN [none |-> TRUE, s |-> <<>>]
    ELSE IF p.kind = "blank" THEN [none |-> FALSE, s |-> Spaces(p.lpad)]
    ELSE [none |-> FALSE,
          s |-> Spaces(p.lpad) \o p.a \o <<p.s1>> \o p.b \o <<p.s2>> \o p.c
                \o Spaces(p.rpad)]

\* str.strip()
RECURSIVE LStrip(_)
LStrip(s) == IF s # <<>> /\ Head(s) \in SpaceChars THEN LStrip(Tail(s)) ELSE s
RECURSIVE RStrip(_)
RStrip(s) ==
    IF s # <<>> /\ s[Len(s)] \in SpaceChars THEN RStrip(SubSeq(s, 1, Len(s) - 1)) ELSE s
Strip(s) == RStrip(LStrip(s))

\* s = (date_str or "").strip()
DateStripped(arg) == IF arg.none THEN <<>> ELSE Strip(arg.s)

AllDigits(s, idx) == \A i \in idx : s[i] \in DigitChars

\* re.match(r"^(\d{4})-(\d{2})-(\d{2})$", s)
MatchYMD(s) ==
    /\ Len(s) = 10
    /\ AllDigits(s, {1, 2, 3, 4, 6, 7, 9, 10})
    /\ s[5] = "-" /\ s[8] = "-"

\* re.match(r"^(\d{2})-(\d{2})-(\d{4})$", s)
MatchDMY(s) ==
    /\ Len(s) = 10
    /\ AllDigits(s, {1, 2, 4, 5, 7, 8, 9, 10})
    /\ s[3] = "-" /\ s[6] = "-"

\* faulty variant: the last format is assumed once the length fits
MatchSlash_len(s) == Len(s) = 10

\* re.match(r"^(\d{2})/(\d{2})/(\d{4})$", s)
MatchSlash(s) ==
    /\ Len(s) = 10
    /\ AllDigits(s, {1, 2, 4, 5, 7, 8, 9, 10})
    /\ s[3] = "/" /\ s[6] = "/"

\* faulty variant: day and month taken in the order of the input
GroupsYMD_swapped(s) ==
    [dd |-> SubSeq(s, 6, 7), mm |-> SubSeq(s, 9, 10), yyyy |-> SubSeq(s, 1, 4)]

\* dd, mm, yyyy = m1.group(3), m1.group(2), m1.group(1)
GroupsYMD(s) ==
    [dd |-> SubSeq(s, 9, 10), mm |-> SubSeq(s, 6, 7), yyyy |-> SubSeq(s, 1, 4)]

\* dd, mm, yyyy = m.group(1), m.group(2), m.group(3)  (both day-first forms)
GroupsDMY(s) ==
    [dd |-> SubSeq(s, 1, 2), mm |-> SubSeq(s, 4, 5), yyyy |-> SubSeq(s, 7, 10)]

\* the if / elif / else of the normalisation; ok = FALSE is the early return
Normalize(s) ==
    IF MatchYMD(s) THEN [ok |-> TRUE, g |-> GroupsYMD(s)]
    ELSE IF MatchDMY(s) THEN [ok |-> TRUE, g |-> GroupsDMY(s)]
    ELSE IF MatchSlash(s) THEN [ok |-> TRUE, g |-> GroupsDMY(s)]
    ELSE [ok |-> FALSE, g |-> [dd |-> <<>>, mm |-> <<>>, yyyy |-> <<>>]]

\* ddmmyyyy = f"{dd}/{mm}/{yyyy}"
FormatDDMMYYYY(g) == g.dd \o <<"/">> \o g.mm \o <<"/">> \o g.yyyy

\* set_date_by_id is called: normalisation, then either the early return with
\* the "unsupported format" line or the "normalized" line
set_date_by_id(p) ==
    /\ datePc = "idle"
    /\ dateParts' = p
    /\ dateIn' = DateArg(p)
    /\ LET n == Normalize(DateStripped(DateArg(p))) IN
         IF n.ok
         THEN /\ dateNorm' = FormatDDMMYYYY(n.g)
              /\ dateLog' = <<"normalized">>
              /\ datePc' = "wait"
         ELSE /\ dateNorm' = <<>>
              /\ dateLog' = <<"unsupported format">>
              /\ datePc' = "returned"
    /\ UNCHANGED pageOps
    /\ UNCHANGED <<gateVars, sessVars, clickVars, moreVars>>

\* await page.wait_for_selector(sel, timeout=15000); on failure log and return
date_wait(ok) ==
    /\ datePc = "wait"
    /\ pageOps' = Append(pageOps, "wait_for_selector")
    /\ IF ok
       THEN datePc' = "evaluate" /\ UNCHANGED dateLog
       ELSE datePc' = "returned" /\ dateLog' = Append(dateLog, "date field not found")
    /\ UNCHANGED <<dateParts, dateIn, dateNorm>>
    /\ UNCHANGED <<gateVars, sessVars, clickVars, moreVars>>

\* res = await page.evaluate(js, {...}): the assignment cascade runs in the
\* page; a rejected evaluate is logged
date_evaluate(ok) ==
    /\ datePc = "evaluate"
    /\ pageOps' = Append(pageOps, "evaluate")
    /\ dateLog' = Append(dateLog, IF ok THEN "mode" ELSE "JS failed")
    /\ datePc' = "verify"
    /\ UNCHANGED <<dateParts, dateIn, dateNorm>>
    /\ UNCHANGED <<gateVars, sessVars, clickVars, moreVars>>

\* await page.wait_for_timeout(50); got = await page.eval_on_selector(...)
\* in one try: the read is skipped when the settling delay raises
date_verify(delayOk, readOk) ==
    /\ datePc = "verify"
    /\ pageOps' = IF delayOk
                  THEN pageOps \o <<"wait_for_timeout", "eval_on_selector">>
                  ELSE Append(pageOps, "wait_for_timeout")
    /\ dateLog' = Append(dateLog, IF delayOk /\ readOk THEN "verify" ELSE "verify failed")
    /\ datePc' = "returned"
    /\ UNCHANGED <<dateParts, dateIn, dateNorm>>
    /\ UNCHANGED <<gateVars, sessVars, clickVars, moreVars>>

DateInit ==
    /\ datePc = "idle"
    /\ dateParts = [kind |-> "none", lpad |-> 0, a |-> <<>>, s1 |-> "-", b |-> <<>>,
                    s2 |-> "-", c |-> <<>>, rpad |-> 0]
    /\ dateIn = [none |-> TRUE, s |-> <<>>]
    /\ dateNorm = <<>>
    /\ pageOps = <<>>
    /\ dateLog = <<>>

\* ========================================================== click_if_exists
\* the patterns download_one passes (src/mdac_automation.py:688, 708, 740)
Patterns == {"check", "submit", "download"}
\* what Locator.count() gives: a number of matches, or CountRaises
CountRaises == -1
Counts == {CountRaises} \cup (0..MaxMatches)

\* `btn.first()` / `link.first()`: in Playwright's Python API Locator.first is
\* a property whose value is a Locator, and a Locator is not callable, so the
\* call raises TypeError before any click is issued.
Locator_first_call == "TypeError"

\* click_if_exists is called on a page holding nb matching buttons and nl
\* matching links
click_if_exists(pat, nb, nl) ==
    /\ clickPc = "idle"
    /\ pattern' = pat
    /\ btnCount' = nb
    /\ linkCount' = nl
    /\ clickLog' = <<"try">>
    /\ clickPc' = "button"
    /\ UNCHANGED <<clicked, clickRet>>
    /\ UNCHANGED <<gateVars, sessVars, dateVars, moreVars>>

\* the first try block: `if await btn.count():` btn.first().click(), return
\* True; any exception is logged as "Button click failed"
click_button(clickOk) ==
    /\ clickPc = "button"
    /\ IF btnCount = CountRaises
       THEN /\ clickLog' = Append(clickLog, "button failed")
            /\ clickPc' = "link"
            /\ UNCHANGED <<clicked, clickRet>>
       ELSE IF btnCount > 0
       THEN IF Locator_first_call = "Locator" /\ clickOk
            THEN /\ clicked' = Append(clicked, "button")
                 /\ clickLog' = clickLog \o <<"button found", "button clicked">>
                 /\ clickRet' = "True"
                 /\ clickPc' = "returned"
            ELSE /\ clickLog' = clickLog \o <<"button found", "button failed">>
                 /\ clickPc' = "link"
                 /\ UNCHANGED <<clicked, clickRet>>
       ELSE /\ clickPc' = "link"
            /\ UNCHANGED <<clicked, clickLog, clickRet>>
    /\ UNCHANGED <<pattern, btnCount, linkCount>>
    /\ UNCHANGED <<gateVars, sessVars, dateVars, moreVars>>

\* the second try block, for the link role, then the "No button/link matched"
\* line and return False
click_link(clickOk) ==
    /\ clickPc = "link"
    /\ IF linkCount = CountRaises
       THEN /\ clickLog' = clickLog \o <<"link failed", "none matched">>
            /\ clickRet' = "False"
            /\ UNCHANGED clicked
       ELSE IF linkCount > 0
       THEN IF Locator_first_call = "Locator" /\ clickOk
            THEN /\ clicked' = Append(clicked, "link")
                 /\ clickLog' = clickLog \o <<"link found", "link clicked">>
                 /\ clickRet' = "True"
            ELSE /\ clickLog' = clickLog \o <<"link found", "link failed", "none matched">>
                 /\ clickRet' = "False"
                 /\ UNCHANGED clicked
       ELSE /\ clickLog' = Append(clickLog, "none matched")
            /\ clickRet' = "False"
            /\ UNCHANGED clicked
    /\ clickPc' = "returned"
    /\ UNCHANGED <<pattern, btnCount, linkCount>>
    /\ UNCHANGED <<gateVars, sessVars, dateVars, moreVars>>

ClickInit ==
    /\ clickPc = "idle"
    /\ pattern = "check"
    /\ btnCount = 0
    /\ linkCount = 0
    /\ clicked = <<>>
    /\ clickLog = <<>>
    /\ clickRet = "none"

\* ============================================================= download_one
\* the value click_if_exists returns on a page holding nb matching buttons and
\* nl matching links (src/mdac_automation.py:295-318): True only after a click
\* was issued
ClickIfExistsRet(nb, nl, clickOk) ==
    \/ nb # CountRaises /\ nb > 0 /\ Locator_first_call = "Locator" /\ clickOk
    \/ nl # CountRaises /\ nl > 0 /\ Locator_first_call = "Locator" /\ clickOk

\* how far the popup strategy gets (src/mdac_automation.py:738-758)
PopupStages == {"no popup", "no pdf", "body failed", "write failed",
                "close failed", "ok"}

NoPre == [nav |-> TRUE, fill |-> TRUE, submit |-> "none"]
NoPage == [btn |-> 0, lnk |-> 0]
NoDirect == [clicked |-> FALSE, fired |-> FALSE, saved |-> FALSE]

\* download_one up to the submit step: navigate_safe, the screenshot, the
\* click on "check", the three guarded writes (lines 685-706); every failure
\* is logged and the function goes on
download_one(navOk, fillOk) ==
    /\ dlPc = "idle"
    /\ dlPre' = [nav |-> navOk, fill |-> fillOk, submit |-> "none"]
    /\ dlPc' = "submit"
    /\ UNCHANGED <<dlPage, dlDirect, dlPopup, dlTried, dlRet>>
    /\ UNCHANGED dlRest

\* lines 708-713: click_if_exists(submit|check|search), and the Enter key in
\* a try block when it returned False
dl_submit(nb, nl, clickOk, enterOk) ==
    /\ dlPc = "submit"
    /\ dlPre' = [dlPre EXCEPT !.submit =
                    IF ClickIfExistsRet(nb, nl, clickOk) THEN "clicked"
                    ELSE IF enterOk THEN "enter" ELSE "failed"]
    /\ dlPc' = "settle"
    /\ UNCHANGED <<dlPage, dlDirect, dlPopup, dlTried, dlRet>>
    /\ UNCHANGED dlRest

\* line 715: `await page.wait_for_timeout(1200)` stands outside every try
\* block, so a failure of it leaves download_one as an exception
dl_settle(ok) ==
    /\ dlPc = "settle"
    /\ dlPc' = IF ok THEN "direct" ELSE "raised"
    /\ UNCHANGED <<dlPre, dlPage, dlDirect, dlPopup, dlTried, dlRet>>
    /\ UNCHANGED dlRest

\* the click of the direct strategy (lines 719-726) does not raise: no element
\* matched, or the matched one was clicked
DirectClickPasses(nb, nl, clickOk) ==
    /\ nb # CountRaises
    /\ IF nb > 0
       THEN Locator_first_call = "Locator" /\ clickOk
       ELSE /\ nl # CountRaises
            /\ nl > 0 => (Locator_first_call = "Locator" /\ clickOk)

\* faulty variant: a failed direct strategy ends download_one with None
dl_direct_gives_up(nb, nl, clickOk, fires, saveOk) ==
    /\ dlPc = "direct"
    /\ dlTried' = Append(dlTried, "direct")
    /\ dlPage' = [btn |-> nb, lnk |-> nl]
    /\ LET passes == DirectClickPasses(nb, nl, clickOk)
           fired == passes /\ fires
           saved == fired /\ saveOk
       IN /\ dlDirect' = [clicked |-> passes /\ (nb > 0 \/ nl > 0),
                          fired |-> fired, saved |-> saved]
          /\ dlRet' = IF saved THEN "direct" ELSE "None"
          /\ dlPc' = "returned"
    /\ UNCHANGED <<dlPre, dlPopup>>
    /\ UNCHANGED dlRest

\* the direct strategy (lines 718-735), one try block: the click, the wait for
\* the download event, save_as, `return out`; any exception is logged as
\* "Direct download failed" and the function goes on to the popup strategy
dl_direct(nb, nl, clickOk, fires, saveOk) ==
    /\ dlPc = "direct"
    /\ dlTried' = Append(dlTried, "direct")
    /\ dlPage' = [btn |-> nb, lnk |-> nl]
    /\ LET passes == DirectClickPasses(nb, nl, clickOk)
           fired == passes /\ fires
           saved == fired /\ saveOk
       IN /\ dlDirect' = [clicked |-> passes /\ (nb > 0 \/ nl > 0),
                          fired |-> fired, saved |-> saved]
          /\ IF saved
             THEN dlRet' = "direct" /\ dlPc' = "returned"
             ELSE dlRet' = dlRet /\ dlPc' = "popup"
    /\ UNCHANGED <<dlPre, dlPopup>>
    /\ UNCHANGED dlRest

\* faulty variant: a failed popup strategy leaves download_one as an exception
dl_popup_raises(stage, clickOk) ==
    /\ dlPc = "popup"
    /\ dlTried' = Append(dlTried, "popup")
    /\ dlPopup' = stage
    /\ IF stage = "ok"
       THEN dlRet' = "popup" /\ dlPc' = "returned"
       ELSE dlRet' = dlRet /\ dlPc' = "raised"
    /\ UNCHANGED <<dlPre, dlPage, dlDirect>>
    /\ UNCHANGED dlRest

\* the popup strategy (lines 738-758), one try block: expect_popup around
\* click_if_exists(download|print|pdf), the PDF response, its body, the write
\* of the file, popup.close(), `return out`; any exception is logged as
\* "Popup download failed" and None is returned
dl_popup(stage, clickOk) ==
    /\ dlPc = "popup"
    /\ dlTried' = Append(dlTried, "popup")
    /\ dlPopup' = stage
    /\ dlRet' = IF stage = "ok" THEN "popup" ELSE "None"
    /\ dlPc' = "returned"
    /\ UNCHANGED <<dlPre, dlPage, dlDirect>>
    /\ UNCHANGED dlRest

DlInit ==
    /\ dlPc = "idle"
    /\ dlPre = NoPre
    /\ dlPage = NoPage
    /\ dlDirect = NoDirect
    /\ dlPopup = "none"
    /\ dlTried = <<>>
    /\ dlRet = "none"


\* ================================================ _fill_if_value, _select_if_value
\* the value argument: None, the empty string, a non-empty string
FieldValues == {"None", "", "x"}
FieldKinds == {"fill", "select"}

\* the early return: `if value is None` in _fill_if_value (line 517),
\* `if not value` in _select_if_value (line 505)
NoValue(kind, value) ==
    IF kind = "fill" THEN value = "None" ELSE value \in {"None", ""}

\* _fill_if_value(page, css, value) / _select_if_value(page, css, value)
field_call(kind, value) ==
    /\ fieldPc = "idle"
    /\ fieldKind' = kind
    /\ fieldValue' = value
    /\ IF NoValue(kind, value)
       THEN fieldLog' = <<"no value">> /\ fieldPc' = "returned"
       ELSE fieldLog' = <<>> /\ fieldPc' = "wait"
    /\ UNCHANGED fieldOps
    /\ UNCHANGED fieldRest

\* faulty variant: the wait for the control stands outside the try block
field_wait_unguarded(ok) ==
    /\ fieldPc = "wait"
    /\ fieldOps' = Append(fieldOps, [op |-> "wait_for_selector", ok |-> ok])
    /\ fieldPc' = IF ok THEN "write" ELSE "raised"
    /\ UNCHANGED <<fieldKind, fieldValue, fieldLog>>
    /\ UNCHANGED fieldRest

\* await page.wait_for_selector(css, timeout=4000) inside the try block: a
\* control that never appears is logged by the except branch
field_wait(ok) ==
    /\ fieldPc = "wait"
    /\ fieldOps' = Append(fieldOps, [op |-> "wait_for_selector", ok |-> ok])
    /\ IF ok
       THEN fieldPc' = "write" /\ UNCHANGED fieldLog
       ELSE fieldPc' = "returned" /\ fieldLog' = Append(fieldLog, "failed")
    /\ UNCHANGED <<fieldKind, fieldValue>>
    /\ UNCHANGED fieldRest

\* await page.fill(css, str(value)) / page.select_option(css, str(value)) and
\* the log line, in the same try block
field_write(ok) ==
    /\ fieldPc = "write"
    /\ fieldOps' = Append(fieldOps, [op |-> IF fieldKind = "fill" THEN "fill"
                                            ELSE "select_option", ok |-> ok])
    /\ fieldLog' = Append(fieldLog, IF ok THEN "ok" ELSE "failed")
    /\ fieldPc' = "returned"
    /\ UNCHANGED <<fieldKind, fieldValue>>
    /\ UNCHANGED fieldRest

FieldInit ==
    /\ fieldPc = "idle"
    /\ fieldKind = "fill"
    /\ fieldValue = "None"
    /\ fieldOps = <<>>
    /\ fieldLog = <<>>

\* ======================================================== _attach_listeners
\* the page events a handler is registered for (lines 119-121, 144-146, 155)
BaseKinds == {"console", "pageerror", "dialog", "framenavigated"}
NetworkKinds == {"request", "response", "requestfailed"}

\* how the body of a handler can end: "ok"; "inner", an exception caught by a
\* try block of the handler itself; "raises", an exception leaving the handler.
\* on_framenav keeps its whole body in `try ... except Exception: pass`.
BodyOutcomes(kind) ==
    IF kind = "framenavigated" THEN {"ok", "inner"}
    ELSE IF kind = "pageerror" THEN {"ok", "raises"}
    ELSE {"ok", "inner", "raises"}

\* faulty variant: the handler is registered without the wrapper
safe_missing(outcome) == IF outcome = "raises" THEN "escaped" ELSE "done"

\* safe(fn): wrap calls fn inside try and `except Exception` logs
\* "Listener error" (lines 84-92)
safe(outcome) == IF outcome = "raises" THEN "logged" ELSE "done"

\* await _attach_listeners(page): page.on for every handler, the network ones
\* under `if LOG_NETWORK`
attach_listeners ==
    /\ telAttached = {}
    /\ telAttached' = BaseKinds \cup (IF LOG_NETWORK THEN NetworkKinds ELSE {})
    /\ UNCHANGED <<LOG_NETWORK, telLog, wfStep, wfBroken>>
    /\ UNCHANGED telRest

\* the page emits an event of a kind a handler is registered for; the wrapped
\* handler runs. An exception leaving a registered callable would reach the
\* event dispatch of the page the workflow is driving.
emit(kind, outcome) ==
    /\ kind \in telAttached
    /\ Len(telLog) < MaxEvents
    /\ telLog' = Append(telLog, [kind |-> kind, body |-> outcome, wrap |-> safe(outcome)])
    /\ wfBroken' = (wfBroken \/ safe(outcome) = "escaped")
    /\ UNCHANGED <<LOG_NETWORK, telAttached, wfStep>>
    /\ UNCHANGED telRest

\* the workflow that owns the page performs its next step
workflow_step ==
    /\ telAttached # {}
    /\ ~wfBroken
    /\ wfStep < MaxWfSteps
    /\ wfStep' = wfStep + 1
    /\ UNCHANGED <<LOG_NETWORK, telAttached, telLog, wfBroken>>
    /\ UNCHANGED telRest

\* LOG_NETWORK is fixed by the environment at import
TelInit ==
    /\ LOG_NETWORK \in BOOLEAN
    /\ telAttached = {}
    /\ telLog = <<>>
    /\ wfStep = 0
    /\ wfBroken = FALSE

\* the listeners at rest, for the specifications that do not move them
TelIdle == TelInit /\ LOG_NETWORK = TRUE

\* ================================================= set_date_by_id: cascade
\* the blocks of the script passed to page.evaluate, in source order
\* (src/mdac_automation.py:406-485)
Strategies == <<"bootstrap-datepicker", "jquery-ui", "tempus", "inputmask", "plain">>

\* what a block meets on the page: "absent", its `if` is false and the block
\* falls through (for tempus also a widget object without `date`); "works",
\* the `if` is true and the body reaches `return {ok:true}`; "throws", the
\* probe or the body throws inside the block's try. The plain block has no
\* `if`.
BlockStates(name) ==
    IF name = "plain" THEN {"works", "throws"} ELSE {"absent", "works", "throws"}

CascPages ==
    { pg \in [el : BOOLEAN, blocks : [1..Len(Strategies) -> {"absent", "works", "throws"}]] :
        \A i \in 1..Len(Strategies) : pg.blocks[i] \in BlockStates(Strategies[i]) }

NoCascPage == [el |-> TRUE, blocks |-> [i \in 1..Len(Strategies) |-> "absent"]]
NoCascRes == [ok |-> FALSE, mode |-> "pending"]

\* page.evaluate(js, cfg) starts the script: `if (!el) return {ok:false,
\* mode:'none'}` (line 391)
cascade_start(pg) ==
    /\ cascPc = "idle"
    /\ cascPage' = pg
    /\ cascRan' = <<>>
    /\ IF pg.el
       THEN /\ cascIdx' = 1
            /\ cascRes' = NoCascRes
            /\ cascPc' = "running"
       ELSE /\ cascIdx' = 0
            /\ cascRes' = [ok |-> FALSE, mode |-> "none"]
            /\ cascPc' = "done"
    /\ UNCHANGED cascRest

\* one block: `try { if (applicable) { ...; return {ok:true, mode} } }
\* catch (e) { return {ok:false, mode, reason} }`. A block that throws ends
\* the script with ok:false; only a block whose `if` is false falls through
\* to the next one.
cascade_block ==
    /\ cascPc = "running"
    /\ LET st == cascPage.blocks[cascIdx] IN
         IF st = "absent"
         THEN /\ cascIdx' = cascIdx + 1
              /\ UNCHANGED <<cascRan, cascRes, cascPc>>
         ELSE /\ cascRan' = Append(cascRan, Strategies[cascIdx])
              /\ cascRes' = [ok |-> st = "works", mode |-> Strategies[cascIdx]]
              /\ cascPc' = "done"
              /\ UNCHANGED cascIdx
    /\ UNCHANGED cascPage
    /\ UNCHANGED cascRest

CascInit ==
    /\ cascPc = "idle"
    /\ cascPage = NoCascPage
    /\ cascIdx = 0
    /\ cascRan = <<>>
    /\ cascRes = NoCascRes

\* ============================================================= register_one
\* the awaits of register_one before the gate point, in source order
\* (src/mdac_automation.py:532-640); each catches its own failure
RegSteps == <<
    "navigate_safe", "accordion personal",
    "fill #name", "fill #passNo", "fill #email", "fill #confirmEmail",
    "date dob", "select #nationality", "select #sex", "date passExpDte",
    "select #region", "fill #mobile", "accordion travel",
    "date arrDt", "date depDt", "fill #vesselNm", "select #trvlMode",
    "select #embark", "select #accommodationStay",
    "fill #accommodationAddress1", "fill #accommodationAddress2",
    "select #accommodationState", "city list", "fill #accommodationPostcode" >>
NumRegSteps == Len(RegSteps)

\* the kind of a step: the helper it goes through
StepKinds == {"navigate", "accordion", "fill", "select", "date", "city"}
StepKind(i) ==
    LET name == RegSteps[i] IN
      IF name = "navigate_safe" THEN "navigate"
      ELSE IF name \in {"accordion personal", "accordion travel"} THEN "accordion"
      ELSE IF name = "city list" THEN "city"
      ELSE IF name \in {"date dob", "date passExpDte", "date arrDt", "date depDt"} THEN "date"
      ELSE IF name \in {"select #nationality", "select #sex", "select #region",
                        "select #trvlMode", "select #embark",
                        "select #accommodationStay", "select #accommodationState"}
           THEN "select"
      ELSE "fill"

\* the workflow whose steps are followed is the first one
Reg == 1

\* register_one(page, row, gate_token=tok, pause=pa) is entered; the two
\* arguments are independent parameters of the function
reg_call(pa, tok) ==
    /\ pc[Reg] = "idle"
    /\ pause' = [pause EXCEPT ![Reg] = pa]
    /\ token' = [token EXCEPT ![Reg] = tok]
    /\ pc' = [pc EXCEPT ![Reg] = "fill"]
    /\ rStep' = 0
    /\ UNCHANGED <<rMissed, rSubmit, rSettle>>
    /\ UNCHANGED <<events, evSet, resp, hist, ev, waited, gateOutcome>>
    /\ UNCHANGED regRest

\* the next step before the gate point: it takes effect, or logs its failure
\* (rMissed collects the kinds of the steps that failed so far)
reg_step(ok) ==
    /\ pc[Reg] = "fill"
    /\ rStep < NumRegSteps
    /\ rStep' = rStep + 1
    /\ rMissed' = IF ok THEN rMissed ELSE rMissed \cup {StepKind(rStep + 1)}
    /\ UNCHANGED <<rSubmit, rSettle>>
    /\ UNCHANGED gateVars
    /\ UNCHANGED regRest

\* lines 642-654, reached after the postcode was written
reg_gate ==
    /\ rStep = NumRegSteps
    /\ gate_point(Reg)

\* faulty variant: the submit click is issued without waiting for the gate
reg_submit_early(clickOk, enterOk) ==
    /\ pc[Reg] \in {"gate", "submit"}
    /\ rSubmit = <<>>
    /\ rSubmit' = IF clickOk THEN <<[by |-> "click", ok |-> TRUE]>>
                  ELSE <<[by |-> "click", ok |-> FALSE], [by |-> "enter", ok |-> enterOk]>>
    /\ UNCHANGED <<rStep, rMissed, rSettle>>
    /\ UNCHANGED gateVars
    /\ UNCHANGED regRest

\* lines 656-667: page.click("#submit", timeout=5000) in a try; in its except
\* page.keyboard.press("Enter") in a try of its own
reg_submit(clickOk, enterOk) ==
    /\ pc[Reg] = "submit"
    /\ rSubmit = <<>>
    /\ rSubmit' = IF clickOk THEN <<[by |-> "click", ok |-> TRUE]>>
                  ELSE <<[by |-> "click", ok |-> FALSE], [by |-> "enter", ok |-> enterOk]>>
    /\ UNCHANGED <<rStep, rMissed, rSettle>>
    /\ UNCHANGED gateVars
    /\ UNCHANGED regRest

\* line 669: `await page.wait_for_timeout(1500)` outside every try block
reg_settle(ok) ==
    /\ pc[Reg] = "submit"
    /\ rSubmit # <<>>
    /\ rSettle = "none"
    /\ rSettle' = IF ok THEN "ok" ELSE "raised"
    /\ UNCHANGED <<rStep, rMissed, rSubmit>>
    /\ UNCHANGED gateVars
    /\ UNCHANGED regRest

\* register_one ends: `return summary` after the screenshot and the guarded
\* read of the body text (lines 670-680), or the exception of the settle delay
reg_return ==
    /\ rSettle # "none"
    /\ submit(Reg)

RegInit ==
    /\ rStep = 0
    /\ rMissed = {}
    /\ rSubmit = <<>>
    /\ rSettle = "none"

\* ============================================================== _map_gender
\* the characters the gender strings of the model are built from
GenderChars == {"m", "M", "f", "F", "a", " "}
\* the words a traveller sheet is expected to carry, and one that is neither
GenderWords == { <<"m","a","l","e">>, <<"M","a","l","e">>,
                 <<"f","e","m","a","l","e">>, <<"F","E","M","A","L","E">>,
                 <<"o","t","h","e","r">> }

\* getattr(row, "gender", None): None or a string
GenderInputs ==
    { [none |-> TRUE, s |-> <<>>] }
    \cup { [none |-> FALSE, s |-> w] : w \in GenderWords }
    \cup { [none |-> FALSE, s |-> w] :
              w \in UNION { [1..n -> GenderChars] : n \in 0..MaxGenderLen } }

\* str.lower(), character by character
LowerChar(c) ==
    CASE c = "M" -> "m" [] c = "F" -> "f" [] c = "E" -> "e" [] c = "A" -> "a"
      [] c = "L" -> "l" [] OTHER -> c
Lower(s) == [i \in 1..Len(s) |-> LowerChar(s[i])]

\* str.startswith(c) for a one-character prefix
StartsWith(s, c) == s # <<>> /\ s[1] = c

\* faulty variant: the value is lowercased without being stripped
map_gender_unstripped(g) ==
    IF g.none \/ g.s = <<>> THEN ""
    ELSE IF StartsWith(Lower(g.s), "m") THEN "1"
    ELSE IF StartsWith(Lower(g.s), "f") THEN "2"
    ELSE ""

\* _map_gender(g): `if not g: return ""`; g = g.strip().lower();
\* startswith("m") -> "1", startswith("f") -> "2", else ""
map_gender(g) ==
    IF g.none \/ g.s = <<>> THEN ""
    ELSE IF StartsWith(Lower(Strip(g.s)), "m") THEN "1"
    ELSE IF StartsWith(Lower(Strip(g.s)), "f") THEN "2"
    ELSE ""

\* register_one, lines 560-562: mapped_sex = _map_gender(getattr(row,
\* "gender", None)); await _select_if_value(page, "#sex", mapped_sex), whose
\* `if not value` returns before the page is touched
select_sex(g) ==
    /\ sexPc = "idle"
    /\ gender' = g
    /\ mapped_sex' = map_gender(g)
    /\ sexPc' = IF map_gender(g) = "" THEN "returned" ELSE "wait"
    /\ UNCHANGED sexOps
    /\ UNCHANGED genderRest

\* await page.wait_for_selector("#sex", timeout=4000), inside the try block
sex_wait(ok) ==
    /\ sexPc = "wait"
    /\ sexOps' = Append(sexOps, [op |-> "wait_for_selector", ok |-> ok])
    /\ sexPc' = IF ok THEN "select" ELSE "returned"
    /\ UNCHANGED <<gender, mapped_sex>>
    /\ UNCHANGED genderRest

\* await page.select_option("#sex", str(value)), in the same try block
sex_select(ok) ==
    /\ sexPc = "select"
    /\ sexOps' = Append(sexOps, [op |-> "select_option", value |-> mapped_sex,
                                 ok |-> ok])
    /\ sexPc' = "returned"
    /\ UNCHANGED <<gender, mapped_sex>>
    /\ UNCHANGED genderRest

GenderInit ==
    /\ sexPc = "idle"
    /\ gender = [none |-> TRUE, s |-> <<>>]
    /\ mapped_sex = ""
    /\ sexOps = <<>>

\* =========================================================== specifications
MoreInit == DlInit /\ FieldInit /\ TelIdle /\ CascInit /\ RegInit /\ GenderInit

Init == GateInit /\ SessIdle /\ DateInit /\ ClickInit /\ MoreInit

Next ==
    \/ \E r \in Flows : register_start(r)
    \/ \E r \in Flows : gate_point(r)
    \/ \E r \in Flows : tick(r)
    \/ \E r \in Flows : gate_resumed(r)
    \/ \E r \in Flows : gate_timeout(r)
    \/ \E t \in Tokens : resume(t)
    \/ \E r \in Flows : submit(r)

Spec == Init /\ [][Next]_vars

InitSession == GateInit /\ SessInit /\ DateInit /\ ClickInit /\ MoreInit

NextSession ==
    \/ \E n \in 1..MaxRows, rec \in BOOLEAN : register_rows(n, rec)
    \/ \E n \in 1..MaxRows, rec \in BOOLEAN : download_rows(n, rec)
    \/ \E launchOk \in BOOLEAN, dirOk \in BOOLEAN, traceOk \in BOOLEAN,
          dlDirOk \in BOOLEAN :
          open_context(launchOk, dirOk, traceOk, dlDirOk)
    \/ \E ok \in BOOLEAN : register_one(ok)
    \/ \E ok \in BOOLEAN : download_row(ok)
    \/ \E ok \in BOOLEAN : fin_trace(ok)
    \/ \E ok \in BOOLEAN : fin_close(ok)
    \/ \E ok \in BOOLEAN : fin_video(ok)
    \/ append_result

SpecSession == InitSession /\ [][NextSession]_vars

NextDate ==
    \/ \E p \in DateInputs : set_date_by_id(p)
    \/ \E ok \in BOOLEAN : date_wait(ok)
    \/ \E ok \in BOOLEAN : date_evaluate(ok)
    \/ \E delayOk \in BOOLEAN, readOk \in BOOLEAN : date_verify(delayOk, readOk)

SpecDate == Init /\ [][NextDate]_vars

NextClick ==
    \/ \E pat \in Patterns, nb \in Counts, nl \in Counts : click_if_exists(pat, nb, nl)
    \/ \E clickOk \in BOOLEAN : click_button(clickOk)
    \/ \E clickOk \in BOOLEAN : click_link(clickOk)

SpecClick == Init /\ [][NextClick]_vars

NextDownload ==
    \/ \E navOk \in BOOLEAN, fillOk \in BOOLEAN : download_one(navOk, fillOk)
    \/ \E nb \in Counts, nl \in Counts, clickOk \in BOOLEAN, enterOk \in BOOLEAN :
          dl_submit(nb, nl, clickOk, enterOk)
    \/ \E ok \in BOOLEAN : dl_settle(ok)
    \/ \E nb \in Counts, nl \in Counts, clickOk \in BOOLEAN,
          fires \in BOOLEAN, saveOk \in BOOLEAN :
          dl_direct(nb, nl, clickOk, fires, saveOk)
    \/ \E stage \in PopupStages, clickOk \in BOOLEAN : dl_popup(stage, clickOk)

SpecDownload == Init /\ [][NextDownload]_vars

NextField ==
    \/ \E kind \in FieldKinds, value \in FieldValues : field_call(kind, value)
    \/ \E ok \in BOOLEAN : field_wait(ok)
    \/ \E ok \in BOOLEAN : field_write(ok)

\* one call of one field setter: set_date_by_id, _fill_if_value or
\* _select_if_value (register_one awaits them one after the other)
NextSetters ==
    \/ fieldPc = "idle" /\ NextDate
    \/ datePc = "idle" /\ NextField

SpecSetters == Init /\ [][NextSetters]_vars

InitTelemetry ==
    GateInit /\ SessIdle /\ DateInit /\ ClickInit /\ DlInit /\ FieldInit /\ TelInit
    /\ CascInit /\ RegInit /\ GenderInit

NextTelemetry ==
    \/ attach_listeners
    \/ \E kind \in BaseKinds \cup NetworkKinds :
          \E outcome \in BodyOutcomes(kind) : emit(kind, outcome)
    \/ workflow_step

SpecTelemetry == InitTelemetry /\ [][NextTelemetry]_vars

NextCascade ==
    \/ \E pg \in CascPages : cascade_start(pg)
    \/ cascade_block

SpecCascade == Init /\ [][NextCascade]_vars

NextRegister ==
    \/ \E pa \in BOOLEAN, tok \in {NoToken, Reg} : reg_call(pa, tok)
    \/ \E ok \in BOOLEAN : reg_step(ok)
    \/ reg_gate
    \/ tick(Reg)
    \/ gate_resumed(Reg)
    \/ gate_timeout(Reg)
    \/ \E t \in Tokens : resume(t)
    \/ \E clickOk \in BOOLEAN, enterOk \in BOOLEAN : reg_submit(clickOk, enterOk)
    \/ \E ok \in BOOLEAN : reg_settle(ok)
    \/ reg_return

SpecRegister == Init /\ [][NextRegister]_vars

\* the steps the event loop takes for a started register_one: every page
\* call is awaited with a timeout or returns at once, and the wait_for timer
\* runs; the arrival of a request and of a resume call is not in its hands
RegProgress ==
    \/ \E ok \in BOOLEAN : reg_step(ok)
    \/ reg_gate
    \/ tick(Reg)
    \/ gate_resumed(Reg)
    \/ gate_timeout(Reg)
    \/ \E clickOk \in BOOLEAN, enterOk \in BOOLEAN : reg_submit(clickOk, enterOk)
    \/ \E ok \in BOOLEAN : reg_settle(ok)
    \/ reg_return

SpecRegisterFair == SpecRegister /\ WF_vars(RegProgress)

NextShared ==
    \/ \E r \in SharedFlows : register_start_shared(r)
    \/ \E r \in SharedFlows : gate_point(r)
    \/ \E r \in SharedFlows : tick(r)
    \/ \E r \in SharedFlows : gate_resumed(r)
    \/ \E r \in SharedFlows : gate_timeout(r)
    \/ \E t \in Tokens : resume(t)
    \/ \E r \in SharedFlows : submit(r)

SpecShared == Init /\ [][NextShared]_vars

NextGender ==
    \/ \E g \in GenderInputs : select_sex(g)
    \/ \E ok \in BOOLEAN : sex_wait(ok)
    \/ \E ok \in BOOLEAN : sex_select(ok)

SpecGender == Init /\ [][NextGender]_vars

\* =================================================================== claims
\* C1: for a token T registered with create(T), the first resume(T) answers
\* success and removes T from the mapping; a further resume(T) with no create
\* in between answers failure.
T_C1_ResumeExactlyOnce ==
    [][\A t \in Tokens :
         resume(t) =>
            /\ hist[t] = "created" => (resp'.ok /\ events'[t] = NoEvent)
            /\ hist[t] = "resumed" => ~resp'.ok]_vars

\* a second resume of a token was answered with failure after the first succeeded
W_C1_SecondResumeFailed ==
    /\ resp.tok # NoToken
    /\ ~resp.ok
    /\ hist[resp.tok] = "resumed"
    /\ events[resp.tok] = NoEvent

\* C2: resume(T) for a token absent from the mapping answers failure and
\* leaves the mapping and every Event flag as they were, also between the
\* generation of the token and the gate point of its workflow.
T_C2_UnknownResumeNoChange ==
    [][\A t \in Tokens :
         (resume(t) /\ events[t] = NoEvent) =>
            /\ ~resp'.ok
            /\ events' = events
            /\ evSet' = evSet]_vars

\* a resume was refused for a generated token whose workflow is still filling
W_C2_ResumeBeforeGate ==
    \E r \in Flows :
        /\ pc[r] = "fill"
        /\ token[r] # NoToken
        /\ resp = [tok |-> token[r], ok |-> FALSE]

\* C3: a workflow suspended at the gate can pass it as soon as resume(token)
\* was executed, whatever the time waited, and it does not leave the gate
\* before the ceiling unless that resume was executed.
T_C3_ResumeUnblocks ==
    /\ [][\A r \in Flows :
            (pc[r] = "gate" /\ ev[r] \notin evSet /\ resume(token[r]))
               => (resp'.ok /\ ev[r] \in evSet')]_vars
    /\ [](\A r \in Flows :
            (pc[r] = "gate" /\ ev[r] \in evSet) => ENABLED gate_resumed(r))
    /\ [][\A r \in Flows :
            (pc[r] = "gate" /\ pc'[r] # "gate" /\ waited[r] < GATE_WAIT_SECONDS)
               => (hist[token[r]] = "resumed" /\ gateOutcome'[r] = "resumed")]_vars

\* a workflow passed the gate on a resume before the ceiling elapsed
W_C3_ResumedEarly ==
    \E r \in Flows :
        /\ pc[r] = "submit"
        /\ gateOutcome[r] = "resumed"
        /\ waited[r] = 0
        /\ resp = [tok |-> token[r], ok |-> TRUE]

\* C4: a suspended workflow whose token no resume was executed for leaves the
\* gate only once the ceiling has elapsed, and then goes on to the submit step.
T_C4_TimeoutContinues ==
    [][\A r \in Flows :
         (pc[r] = "gate" /\ pc'[r] # "gate" /\ hist[token[r]] # "resumed")
            => /\ waited[r] >= GATE_WAIT_SECONDS
               /\ gateOutcome'[r] = "timeout"
               /\ pc'[r] = "submit"]_vars

\* a workflow is at the submit step after its gate wait timed out unresumed
W_C4_TimedOut ==
    \E r \in Flows :
        /\ pc[r] = "submit"
        /\ gateOutcome[r] = "timeout"
        /\ waited[r] = GATE_WAIT_SECONDS
        /\ hist[token[r]] = "created"

\* C5: the timeout path leaves the token in the mapping, so a later
\* resume(token) answers success, and only that resume removes the token.
T_C5_TimeoutKeepsToken ==
    /\ [][\A r \in Flows :
            gate_timeout(r) => (events'[token[r]] = ev[r] /\ events' = events)]_vars
    /\ [](\A r \in Flows :
            (gateOutcome[r] = "timeout" /\ hist[token[r]] = "created")
               => events[token[r]] = ev[r])
    /\ [][\A r \in Flows :
            (gateOutcome[r] = "timeout" /\ hist[token[r]] = "created" /\ resume(token[r]))
               => (resp'.ok /\ events'[token[r]] = NoEvent)]_vars

\* a resume succeeded for a token whose workflow had already timed out
W_C5_LateResume ==
    \E r \in Flows :
        /\ gateOutcome[r] = "timeout"
        /\ pc[r] \in {"submit", "done"}
        /\ resp = [tok |-> token[r], ok |-> TRUE]
        /\ events[token[r]] = NoEvent

\* C6: video_path is populated only if the context was closed successfully.
CE_C6_VideoOnlyAfterClose ==
    artifacts.video_path => ctx.state = "closed"

\* the steps finalize attempts for the current row, in order
ExpectedFinLog ==
    (IF RECORD_TRACE /\ record THEN <<"trace">> ELSE <<>>) \o <<"close", "video">>

\* C7: finalize attempts trace-stop (when tracing applies), context close and
\* video resolution in that order whatever the earlier outcomes, and returns
\* to its caller.
T_C7_FinalizeAllSteps ==
    /\ hpc \in {"append", "done"} => finLog = ExpectedFinLog
    /\ hpc = "fin_close" => finLog = SubSeq(ExpectedFinLog, 1, Len(ExpectedFinLog) - 2)
    /\ hpc = "fin_video" => finLog = SubSeq(ExpectedFinLog, 1, Len(ExpectedFinLog) - 1)
    /\ hpc \in {"open", "work", "fin_trace", "aborted"} => finLog = <<>>

\* finalize completed all three steps although trace-stop and close failed
W_C7_LaterStepsAfterFailures ==
    /\ hpc = "append"
    /\ finLog = <<"trace", "close", "video">>
    /\ ~artifacts.trace_path
    /\ ctx.state = "closefailed"

IsTwoDigits(f) == Len(f) = 2 /\ \A i \in 1..2 : f[i] \in DigitChars
IsYear(f) == Len(f) = 4 /\ \A i \in 1..4 : f[i] \in DigitChars
Slashed(d, m, y) == d \o <<"/">> \o m \o <<"/">> \o y

\* the input is year-month-day with dashes
PartsYMD(p) ==
    /\ p.kind = "built" /\ p.s1 = "-" /\ p.s2 = "-"
    /\ IsYear(p.a) /\ IsTwoDigits(p.b) /\ IsTwoDigits(p.c)

\* the input is day-month-year with the separator sep
PartsDMY(p, sep) ==
    /\ p.kind = "built" /\ p.s1 = sep /\ p.s2 = sep
    /\ IsTwoDigits(p.a) /\ IsTwoDigits(p.b) /\ IsYear(p.c)

\* C8: YYYY-MM-DD gives DD/MM/YYYY with the same digits, DD-MM-YYYY gives
\* DD/MM/YYYY, DD/MM/YYYY gives itself, whatever whitespace surrounds the input.
T_C8_DateNormalization ==
    datePc # "idle" =>
       /\ PartsYMD(dateParts)
            => dateNorm = Slashed(dateParts.c, dateParts.b, dateParts.a)
       /\ PartsDMY(dateParts, "-")
            => dateNorm = Slashed(dateParts.a, dateParts.b, dateParts.c)
       /\ PartsDMY(dateParts, "/")
            => dateNorm = Slashed(dateParts.a, dateParts.b, dateParts.c)
       /\ Strip(dateIn.s) \in { <<"2","0","2","4","-","0","5","-","0","7">>,
                                <<"0","7","-","0","5","-","2","0","2","4">>,
                                <<"0","7","/","0","5","/","2","0","2","4">> }
            => dateNorm = <<"0","7","/","0","5","/","2","0","2","4">>

\* " 2024-05-07 " was normalised to "07/05/2024"
W_C8_PaddedYMD ==
    /\ datePc = "wait"
    /\ dateIn.s = <<" ","2","0","2","4","-","0","5","-","0","7"," ">>
    /\ dateNorm = <<"0","7","/","0","5","/","2","0","2","4">>

\* C9: for a date string in none of the three formats, None and "" included,
\* set_date_by_id touches the page not at all, logs the failure and returns.
T_C9_UnsupportedUntouched ==
    (datePc # "idle"
       /\ ~PartsYMD(dateParts) /\ ~PartsDMY(dateParts, "-") /\ ~PartsDMY(dateParts, "/"))
       => /\ datePc = "returned"
          /\ pageOps = <<>>
          /\ dateLog = <<"unsupported format">>

\* the call returned for a ten-character string that is no date
W_C9_MalformedReturned ==
    /\ datePc = "returned"
    /\ dateIn.s = <<"x","7","/","0","5","/","2","0","2","4">>
    /\ pageOps = <<>>

\* C10: when both a button and a link match, the button is the element
\* activated and the link is never clicked.
CE_C10_ButtonPreferred ==
    (clickPc = "returned" /\ btnCount > 0 /\ linkCount > 0) => clicked = <<"button">>

\* C11 as stated: once the download event of the direct strategy has fired the
\* popup strategy is never attempted; when it has not fired the popup strategy
\* is attempted before download_one ends in failure; the direct strategy is
\* attempted before the popup strategy.
CE_C11_EventFiredNoPopup ==
    /\ dlDirect.fired => \A i \in 1..Len(dlTried) : dlTried[i] # "popup"
    /\ (dlPc = "returned" /\ ~dlDirect.fired) => dlTried = <<"direct", "popup">>
    /\ dlTried \in {<<>>, <<"direct">>, <<"direct", "popup">>}

\* C11: the strategies are attempted in the order direct, popup, each at most
\* once; the popup strategy is never attempted after the direct strategy has
\* saved its file, and it is attempted whenever the direct strategy failed at
\* any of its steps (the click, the wait for the download event, the save)
\* before download_one gives its answer.
T_C11_PopupIffDirectFailed ==
    /\ dlTried \in {<<>>, <<"direct">>, <<"direct", "popup">>}
    /\ dlDirect.saved => dlTried = <<"direct">>
    /\ (dlPc = "returned" /\ ~dlDirect.saved) => dlTried = <<"direct", "popup">>
    /\ dlPc = "popup" => (dlTried = <<"direct">> /\ ~dlDirect.saved)

\* the download event fired, the save failed and the popup strategy then ran
W_C11_PopupAfterFailedSave ==
    /\ dlPc = "returned"
    /\ dlDirect.fired
    /\ ~dlDirect.saved
    /\ dlTried = <<"direct", "popup">>

\* C12: download_one answers with the file of the first strategy that
\* succeeded, and with None once both strategies have failed; it never ends
\* as an exception because of a failed navigation, field write, submit click
\* or strategy: the only exception leaving it is the one of the settle delay
\* between the submit step and the strategies.
T_C12_PathOrNone ==
    /\ dlPc = "returned" =>
          dlRet = (IF dlDirect.saved THEN "direct"
                   ELSE IF dlPopup = "ok" THEN "popup" ELSE "None")
    /\ dlPc = "raised" => (dlTried = <<>> /\ dlPre.submit # "none")

\* navigation, the writes and the submit step failed, both strategies failed,
\* and download_one returned None
W_C12_AllFailedNone ==
    /\ dlPc = "returned"
    /\ dlRet = "None"
    /\ ~dlPre.nav
    /\ ~dlPre.fill
    /\ dlPre.submit = "failed"
    /\ dlTried = <<"direct", "popup">>
    /\ dlPopup # "ok"

\* C13: a field setter never ends as an exception: when the control does not
\* appear within the bounded wait, or the write fails, the setter logs the
\* miss and returns; set_date_by_id returns right after a failed wait and goes
\* on to the verification after a failed assignment.
T_C13_SettersReturn ==
    /\ fieldPc \in {"idle", "wait", "write", "returned"}
    /\ datePc \in {"idle", "wait", "evaluate", "verify", "returned"}
    /\ (fieldPc # "idle" /\ fieldOps # <<>> /\ ~fieldOps[Len(fieldOps)].ok) =>
          (fieldPc = "returned" /\ fieldLog = <<"failed">>)
    /\ (pageOps = <<"wait_for_selector">> /\ datePc # "evaluate") =>
          (datePc = "returned" /\ dateLog[Len(dateLog)] = "date field not found")
    /\ (datePc = "returned" /\ Len(pageOps) >= 2) =>
          dateLog[Len(dateLog)] \in {"verify", "verify failed"}

\* the control of a fill never appeared and the setter returned after logging
W_C13_ControlNeverAppeared ==
    /\ fieldPc = "returned"
    /\ fieldKind = "fill"
    /\ fieldOps = <<[op |-> "wait_for_selector", ok |-> FALSE]>>
    /\ fieldLog = <<"failed">>

\* C14 as stated: when the handler of a batch has ended, whether by returning
\* or by an exception of open_context, the results hold exactly one record
\* for each row of the batch.
CE_C14_OneRecordPerRow ==
    hpc \in {"done", "aborted"} => Len(results) = nrows

\* C15: open_context returns a session whenever launch, context creation and
\* page creation succeed, whatever the outcome of preparing the video
\* directory, starting the trace and preparing the download directory; when
\* the video directory cannot be prepared the context records no video and
\* the descriptor names no screenshots directory.
T_C15_SessionDespiteSetupFailures ==
    [][\A dirOk \in BOOLEAN, traceOk \in BOOLEAN, dlDirOk \in BOOLEAN :
         open_context(TRUE, dirOk, traceOk, dlDirOk) =>
            /\ hpc' = "work"
            /\ ctx'.state = "open"
            /\ (record /\ ~dirOk) => (~ctx'.video /\ ~artifacts'.screenshots_dir)]_vars

\* a session was returned although the video directory, the trace start and
\* the download directory all failed
W_C15_AllSetupStepsFailed ==
    /\ hpc = "work"
    /\ ctx.state = "open"
    /\ record
    /\ ~ctx.video
    /\ ~artifacts.screenshots_dir
    /\ ctx.tracing = "failed"
    /\ ctx.downloads = "failed"

\* C16: on the page of a session every navigation comes after the telemetry
\* listeners were attached: the session returned by open_context has its
\* listeners attached and has not been navigated.
T_C16_ListenersBeforeNavigation ==
    /\ \A i \in 1..Len(ctx.log) :
          ctx.log[i] = "goto" => \E j \in 1..(i - 1) : ctx.log[j] = "attach_listeners"
    /\ hpc = "work" => ctx.log = <<"new_page", "attach_listeners">>

\* the workflow has navigated the page of a session
W_C16_WorkflowNavigated ==
    /\ hpc = "fin_trace"
    /\ ctx.log = <<"new_page", "attach_listeners", "goto">>

\* C18 as stated: the descriptor returned by open_context has video_path,
\* trace_path and screenshots_dir all absent.
CE_C18_DescriptorEmptyAtCreation ==
    hpc = "work" => artifacts = NoArtifacts

\* C18: the descriptor returned by open_context has video_path and trace_path
\* absent, and names a screenshots directory exactly when the video directory
\* was prepared; after that its fields are changed by the steps of the
\* finalizer only, never by the workflow.
T_C18_DescriptorFrame ==
    [][/\ (hpc = "open" /\ hpc' = "work") =>
             artifacts' = [video_path |-> FALSE, trace_path |-> FALSE,
                           screenshots_dir |-> ctx'.video]
       /\ hpc = "work" => artifacts' = artifacts
       /\ (artifacts' # artifacts /\ hpc \notin {"open", "append"}) =>
             hpc \in {"fin_trace", "fin_video"}]_vars

\* the workflow ran on a session whose descriptor named a screenshots
\* directory from creation, and the finalizer then recorded the video path
W_C18_ScreensFromCreation ==
    /\ hpc = "append"
    /\ artifacts.screenshots_dir
    /\ artifacts.video_path
    /\ ctx.video

\* C17: an exception leaving the body of any telemetry handler is caught and
\* logged by the wrapper and goes no further: no event leaves an exception
\* behind, a handler step does not move the workflow, and the workflow can
\* always take its next step.
T_C17_HandlerErrorsContained ==
    /\ \A i \in 1..Len(telLog) :
          telLog[i].wrap = (IF telLog[i].body = "raises" THEN "logged" ELSE "done")
    /\ ~wfBroken
    /\ (telAttached # {} /\ wfStep < MaxWfSteps) => ENABLED workflow_step

\* a handler of the network group raised, the wrapper logged it, and the
\* workflow has taken all its steps
W_C17_RaisedThenProgress ==
    /\ Len(telLog) >= 1
    /\ telLog[1].kind = "requestfailed"
    /\ telLog[1].body = "raises"
    /\ telLog[1].wrap = "logged"
    /\ wfStep = MaxWfSteps

\* C19 as stated: the blocks are entered in the order bootstrap-datepicker,
\* jquery-ui, tempus, inputmask, plain and none is entered twice; the
\* strategy that takes effect is the first one that completes without error,
\* so the script does not end on a block that threw while a later block has
\* not been tried.
CE_C19_FirstWithoutErrorWins ==
    /\ \A i \in 1..Len(cascRan), j \in 1..Len(cascRan) :
          i < j => \E a \in 1..Len(Strategies), b \in 1..Len(Strategies) :
                      a < b /\ Strategies[a] = cascRan[i] /\ Strategies[b] = cascRan[j]
    /\ (cascPc = "done" /\ cascPage.el) =>
          \A i \in 1..Len(Strategies) :
             (cascPage.blocks[i] = "works"
                /\ \A k \in 1..(i - 1) : cascPage.blocks[k] # "works")
             => cascRes = [ok |-> TRUE, mode |-> Strategies[i]]

\* C20: register_one leaves its field steps only after the last of them, and
\* then registers its token and waits on it exactly when pause was requested
\* and a token was supplied; a token is registered nowhere else; no submit
\* attempt, by click or by keyboard, is made before the gate point or while
\* the workflow is suspended in it; once past the gate the workflow never
\* comes back to it, and the outcome of the wait is decided once.
T_C20_GateOnceBeforeSubmit ==
    [][/\ (pc[Reg] = "fill" /\ pc'[Reg] # "fill") =>
             /\ rStep = NumRegSteps
             /\ IF pause[Reg] /\ token[Reg] # NoToken
                THEN /\ pc'[Reg] = "gate"
                     /\ ev'[Reg] # NoEvent
                     /\ events'[token[Reg]] = ev'[Reg]
                ELSE /\ pc'[Reg] = "submit"
                     /\ events' = events
       /\ (\E t \in Tokens : events[t] = NoEvent /\ events'[t] # NoEvent) =>
             (pc[Reg] = "fill" /\ pause[Reg] /\ token[Reg] # NoToken)
       /\ pc'[Reg] \in {"fill", "gate"} => rSubmit' = <<>>
       /\ rSubmit' # rSubmit => pc[Reg] = "submit"
       /\ pc[Reg] \in {"submit", "done"} => pc'[Reg] \in {"submit", "done"}
       /\ gateOutcome[Reg] # "none" => gateOutcome'[Reg] = gateOutcome[Reg]
       /\ (pc[Reg] = "gate" /\ pc'[Reg] # "gate") =>
             (pc'[Reg] = "submit" /\ gateOutcome[Reg] = "none"
                /\ gateOutcome'[Reg] # "none")]_vars

\* a paused workflow was resumed at its gate, submitted by the keyboard after
\* the click failed, and returned
W_C20_GatedThenSubmitted ==
    /\ pc[Reg] = "done"
    /\ pause[Reg]
    /\ token[Reg] # NoToken
    /\ gateOutcome[Reg] = "resumed"
    /\ rStep = NumRegSteps
    /\ Len(rSubmit) = 2
    /\ rSettle = "ok"

\* C21 as stated: whatever steps before the gate point fail, register_one
\* performs every one of them in order, reaches the submit step, and ends by
\* returning its summary: the workflow leaves its field steps only after the
\* last of them, no submit attempt and no end of the workflow comes before
\* all of them, and a workflow that has ended has returned its summary.
CE_C21_SummaryForEveryFieldOutcome ==
    /\ pc[Reg] \in {"gate", "submit", "done"} => rStep = NumRegSteps
    /\ pc[Reg] = "fill" => (rSubmit = <<>> /\ rSettle = "none")
    /\ rMissed \subseteq {StepKind(i) : i \in 1..rStep}
    /\ pc[Reg] = "done" => (rSubmit # <<>> /\ rSettle = "ok")

\* C22 as stated: the keyboard submit is attempted exactly when the click on
\* the submit control failed, never after a successful click; and when both
\* attempts failed register_one still ends by returning its summary, not by
\* an exception.
CE_C22_BothFailedStillReturns ==
    /\ rSubmit # <<>> =>
          /\ rSubmit[1].by = "click"
          /\ Len(rSubmit) = (IF rSubmit[1].ok THEN 1 ELSE 2)
          /\ Len(rSubmit) = 2 => rSubmit[2].by = "enter"
    /\ (pc[Reg] = "done" /\ Len(rSubmit) = 2 /\ ~rSubmit[2].ok) => rSettle = "ok"

\* C23 as stated: at most one workflow is waiting, with its flag unset, on
\* any one token, and the handle such a workflow waits on is the one the
\* mapping holds for its token, so that resume of the token signals it.
CE_C23_OnePendingWaitPerToken ==
    /\ \A r1 \in Flows, r2 \in Flows :
          (/\ pc[r1] = "gate" /\ ev[r1] \notin evSet
           /\ pc[r2] = "gate" /\ ev[r2] \notin evSet
           /\ token[r1] = token[r2]) => r1 = r2
    /\ \A r \in Flows :
          (pc[r] = "gate" /\ ev[r] \notin evSet) => events[token[r]] = ev[r]

\* C24 as stated: under fairness of the workflow's steps and timers, every
\* started register_one eventually ends by returning its result summary.
CE_C24_EveryRowReturnsSummary ==
    (pc[Reg] = "fill") ~> (pc[Reg] = "done" /\ rSettle = "ok")

\* C25: with several workflows suspended at the gate on distinct tokens,
\* resume(T1) signals only the Event registered under T1 and removes only T1
\* from the mapping: every workflow suspended on another token stays
\* suspended with its flag unset and its token still mapped to its Event; and
\* neither the create nor the timeout of one workflow touches the entry, the
\* flag or the suspension of another.
T_C25_ResumeIsolated ==
    /\ [][\A t \in Tokens :
            resume(t) =>
               /\ \A t2 \in Tokens \ {t} : events'[t2] = events[t2]
               /\ evSet' \ evSet \subseteq {events[t]}
               /\ \A r \in Flows :
                     (pc[r] = "gate" /\ ev[r] \notin evSet /\ token[r] # t) =>
                        /\ pc'[r] = "gate"
                        /\ ev'[r] = ev[r] /\ ev[r] \notin evSet'
                        /\ events'[token[r]] = ev[r]]_vars
    /\ [][\A r \in Flows, r2 \in Flows :
            (r2 # r /\ (gate_point(r) \/ gate_timeout(r))
                /\ pc[r2] = "gate" /\ ev[r2] \notin evSet) =>
               /\ pc'[r2] = "gate"
               /\ ev'[r2] = ev[r2] /\ ev[r2] \notin evSet'
               /\ events'[token[r2]] = ev[r2]]_vars

\* two workflows were suspended on distinct tokens; the resume of the first
\* was answered with success and the second is still suspended, unsignalled,
\* with its token in the mapping
W_C25_OtherStillSuspended ==
    \E r1 \in Flows, r2 \in Flows :
        /\ r1 # r2
        /\ token[r1] # token[r2]
        /\ pc[r1] = "gate" /\ ev[r1] \in evSet
        /\ resp = [tok |-> token[r1], ok |-> TRUE]
        /\ events[token[r1]] = NoEvent
        /\ pc[r2] = "gate" /\ ev[r2] \notin evSet
        /\ events[token[r2]] = ev[r2]

\* C26 as stated: when the session of a row is opened, nothing launched by
\* open_context for an earlier row is still running, and the browser
\* instances running at any time are at most the one of the row in progress.
CE_C26_NothingLeftOpenForNextRow ==
    /\ hpc = "open" => browsers = 0
    /\ browsers <= 1

\* C27 as stated: the sex code is "1" for male, "2" for female (in any case,
\* with any surrounding blanks) and empty for every other value.
CE_C27_OnlyMaleFemaleMapped ==
    sexPc # "idle" =>
        mapped_sex =
            (IF gender.none THEN ""
             ELSE IF Lower(Strip(gender.s)) = <<"m","a","l","e">> THEN "1"
             ELSE IF Lower(Strip(gender.s)) = <<"f","e","m","a","l","e">> THEN "2"
             ELSE "")

\* C27, amended: the sex code is "1" when the first non-blank character of
\* the value is m or M, "2" when it is f or F, and empty otherwise (absent,
\* empty or blank value, or any other first character); with an empty code
\* the sex control is never touched, and with a code the only value ever
\* selected is that code.
T_C27_SexCodeByFirstLetter ==
    sexPc # "idle" =>
        LET s == gender.s
            first == IF gender.none \/ \A i \in 1..Len(s) : s[i] = " " THEN "none"
                     ELSE s[CHOOSE i \in 1..Len(s) :
                                s[i] # " " /\ \A j \in 1..(i - 1) : s[j] = " "]
        IN  /\ mapped_sex = (IF first \in {"m", "M"} THEN "1"
                             ELSE IF first \in {"f", "F"} THEN "2" ELSE "")
            /\ mapped_sex = "" => (sexOps = <<>> /\ sexPc = "returned")
            /\ \A i \in 1..Len(sexOps) :
                  sexOps[i].op = "select_option" => sexOps[i].value = mapped_sex

\* a value that is not the word male, written with a leading blank, was
\* mapped to "1" and selected on the control
W_C27_LetterAfterBlankSelected ==
    /\ sexPc = "returned"
    /\ gender = [none |-> FALSE, s |-> <<" ", "M">>]
    /\ mapped_sex = "1"
    /\ Len(sexOps) = 2
    /\ sexOps[2] = [op |-> "select_option", value |-> "1", ok |-> TRUE]

\* C28: _finalize_artifacts is invoked exactly once for every session that
\* open_context returned, whether the workflow returned or raised: a session
\* handed to the workflow has not been finalized, and when the record of its
\* row is appended the context close of that session was attempted exactly
\* once, the record being an error record exactly when the workflow raised.
T_C28_FinalizeOncePerSession ==
    /\ [](hpc = "work" => (ctx.state = "open" /\ finLog = <<>>))
    /\ [][append_result =>
            /\ Cardinality({i \in 1..Len(finLog) : finLog[i] = "close"}) = 1
            /\ Cardinality({i \in 1..Len(finLog) : finLog[i] = "video"}) = 1
            /\ ctx.state \in {"closed", "closefailed"}
            /\ results'[Len(results')] = (IF raised THEN "error" ELSE "ok")]_vars

\* the workflow of the second row raised and its session was finalized, after
\* the session of the first row had been finalized and recorded
W_C28_FinalizedAfterRaise ==
    /\ hpc = "append"
    /\ row = 2
    /\ raised
    /\ Len(results) = 1
    /\ ctx.state = "closed"
    /\ Cardinality({i \in 1..Len(finLog) : finLog[i] = "close"}) = 1

\* C29: finalize attempts trace-stop exactly when open_context attempted
\* trace-start for the session (tracing enabled and a recording directory
\* given), also when that start failed or the directory could not be
\* prepared; and trace_path is populated only if the trace-stop succeeded.
T_C29_TraceStopIffStartAttempted ==
    [][\A ok \in BOOLEAN :
         fin_trace(ok) =>
            /\ (finLog' = Append(finLog, "trace")) <=> (ctx.tracing # "off")
            /\ (ctx.tracing = "off") => finLog' = finLog
            /\ (ctx.tracing # "off") <=> (RECORD_TRACE /\ record)
            /\ artifacts'.trace_path <=> (ok /\ ctx.tracing # "off")
            /\ ~artifacts.trace_path]_vars

\* trace-stop was attempted, and failed, for a session whose video directory
\* could not be prepared and whose trace-start had failed
W_C29_StopAfterFailedStart ==
    /\ hpc = "fin_close"
    /\ record /\ ~ctx.video
    /\ ctx.tracing = "failed"
    /\ finLog = <<"trace">>
    /\ ~artifacts.trace_path

====
